---- MODULE Spec2Model ----
(***************************************************************************)
(* Book-Finder: a catalog of books with text embeddings                    *)
(* (app/services/book_service.py, embedding_service.py), similarity search *)
(* through the store's vector index (similarity_service.py) and the        *)
(* rule-based mood inference of the track API (mood_service.py) and the    *)
(* embedding built from audio features (audio_service.py).                 *)
(*                                                                         *)
(* Scaling.  The embedding dimension is 1536 in config.py; the model keeps *)
(* the name EMBEDDING_DIM and scales the value down to 2.  Every vector of *)
(* the model is a unit axis vector, so its cosine similarity with another  *)
(* vector is their dot product.  Book fields that no operation of the      *)
(* model reads (isbn, publishYear, publisher, pageCount, language,         *)
(* createdAt, updatedAt) are left out of the documents.                    *)
(* In create_embedding of AudioService the same dimension is scaled to 7   *)
(* and the sub-vectors of a feature bundle to at most MaxSub components, so *)
(* that bundles shorter and longer than the dimension both occur.  A float *)
(* is an integer, NaN or Inf; a normalized component x / norm is kept as   *)
(* the pair of x and the squared norm.                                     *)
(***************************************************************************)
EXTENDS Integers, Sequences, FiniteSets, TLC

VARIABLES
    books,        \* the "books" collection: ObjectId -> document
    nextId,       \* the next ObjectId the store hands out on insert
    last,         \* the call that returned last, its arguments and outcome
    upd,          \* per request: update_book suspended between Book.get and book.save
    del,          \* delete_book request suspended between Book.get and book.delete
    deleted,      \* history: ids for which delete_book has returned True
    tags,         \* infer_mood: the argument
    mood_scores,  \* infer_mood: the local dict mood_scores at return
    mood,         \* infer_mood: the returned value
    features,     \* AudioService.create_embedding: the argument
    audio,        \* AudioService.create_embedding: its outcome
    first         \* history: argument and result of the first of two calls

vars == <<books, nextId, last, upd, del, deleted, tags, mood_scores, mood,
          features, audio, first>>

catalogVars == <<books, nextId, last, upd, del, deleted>>
moodVars == <<tags, mood_scores, mood>>
audioVars == <<features, audio>>
\* What the catalog's operations neither read nor write
pureVars == <<moodVars, audioVars, first>>

----------------------------------------------------------------------------
(* Bounds and constants *)

MaxBooks == 3          \* ObjectIds 1..MaxBooks
MaxCreated == 1        \* Spec: create_book inserts at most MaxCreated books
MaxLimit == 2          \* the limit (k) argument ranges over 1..MaxLimit
MaxTags == 3           \* infer_mood is called with at most MaxTags tags

EMBEDDING_DIM == 2     \* settings.EMBEDDING_DIM, scaled down from 1536

\* AudioService.EMBEDDING_DIM (the same setting), scaled so that feature
\* bundles shorter and longer than it both occur
AudioEmbeddingDim == 7
MaxSub == 2            \* a sub-vector of a feature bundle has at most MaxSub components

NaN == 9               \* encoding of a non-finite float32 component
Inf == 8               \* encoding of an infinite float component

None == "None"         \* Python None where a str is optional
Pending == "<pending>" \* infer_mood has not returned yet

\* No feature bundle is at hand
NoFeatures == <<>>
\* AudioService.create_embedding has not returned yet
NoAudio ==
    [raised |-> Pending, concatenated |-> <<>>, padded |-> <<>>, embedding |-> <<>>]
\* No call has been recorded as the first of two
NoFirst == [input |-> <<>>, output |-> Pending]
Missing == "<missing>" \* a key that is absent from a dict

BookIds == 1..MaxBooks

Min(a, b) == IF a < b THEN a ELSE b
Max(a, b) == IF a > b THEN a ELSE b

\* No call has returned since the last response was taken
NoCall == [op |-> "none"]
\* No request is suspended
Idle == [pc |-> "idle"]

\* Concurrent update_book requests
Updaters == {"u1", "u2"}
NoUpdates == [u \in Updaters |-> Idle]

\* Python truthiness of an Optional[str]
Truthy(s) == s # None /\ s # ""

----------------------------------------------------------------------------
(* Id strings.  bson.ObjectId accepts 24 hex digits in either letter case  *)
(* and prints in lower case; any other string raises InvalidId.            *)

IdStr(form, oid) == [form |-> form, oid |-> oid]

NoId == IdStr("none", 0)            \* exclude_book_id = None
EmptyId == IdStr("empty", 0)        \* ""
MalformedId == IdStr("malformed", 0) \* e.g. "not-an-id"

IdStrings ==
    {IdStr("lower", o) : o \in BookIds}
        \cup {IdStr("upper", 1), EmptyId, MalformedId}

\* ObjectId(s) succeeds
ObjectIdValid(s) == s.form \in {"lower", "upper"}

\* ObjectId(s), defined when ObjectIdValid(s)
ObjectId(s) == s.oid

\* str(oid)
StrOfObjectId(oid) == IdStr("lower", oid)

----------------------------------------------------------------------------
(* Vectors and embeddings *)

UnitVector(axis, sign) ==
    [i \in 1..EMBEDDING_DIM |-> IF i = axis THEN sign ELSE 0]

\* An embedding field: null, or a list of floats
NoEmbedding == [null |-> TRUE, vec |-> <<>>]
Embedding(v) == [null |-> FALSE, vec |-> v]

RECURSIVE DotFrom(_, _, _)
DotFrom(a, b, i) ==
    IF i > Len(a) THEN 0 ELSE a[i] * b[i] + DotFrom(a, b, i + 1)

\* similarity "COS" of the index; the model's vectors have norm 1
CosineScore(q, v) == DotFrom(q, v, 1)

IsFinite(x) == x # NaN

\* EmbeddingService.validate_embedding
validate_embedding(v) ==
    /\ Len(v) = EMBEDDING_DIM
    /\ \A i \in 1..Len(v) : IsFinite(v[i])

----------------------------------------------------------------------------
(* Documents *)

Titles == {"t1", "t2"}
Descriptions == {"d1", "d2"}
Authors == {"a1"}
Genres == {"g1", "g2"}

Book(title, author, description, genre, embedding, addedAt) ==
    [title |-> title, author |-> author, description |-> description,
     genre |-> genre, embedding |-> embedding, addedAt |-> addedAt]

\* BookService._serialize_book: the document without its embedding, _id as str
SerializeBook(id) ==
    [_id |-> StrOfObjectId(id), title |-> books[id].title,
     author |-> books[id].author, description |-> books[id].description,
     genre |-> books[id].genre, addedAt |-> books[id].addedAt]

----------------------------------------------------------------------------
(* SimilarityService.find_similar_books *)

\* Documents the vector index on path "embedding" holds: those whose
\* embedding is a vector of the index's dimensions
IndexedIds ==
    {id \in DOMAIN books :
        /\ ~books[id].embedding.null
        /\ validate_embedding(books[id].embedding.vec)}

ScoreOf(q, id) == CosineScore(q, books[id].embedding.vec)

IsInjective(s) == \A i, j \in DOMAIN s : i # j => s[i] # s[j]

\* The $search stage: the k nearest indexed documents, best first.  The
\* index fixes no order among documents of equal score.
SearchStage(q, k) ==
    LET n == Min(k, Cardinality(IndexedIds)) IN
    {s \in [1..n -> IndexedIds] :
        /\ IsInjective(s)
        /\ \A i \in 1..n : \A j \in 1..n :
              i < j => ScoreOf(q, s[i]) >= ScoreOf(q, s[j])
        /\ \A id \in IndexedIds :
              (\A i \in 1..n : s[i] # id) =>
                  \A i \in 1..n : ScoreOf(q, s[i]) >= ScoreOf(q, id)}

\* The $search stage over a collection that holds the documents ids only
SearchStageOver(ids, q, k) ==
    LET indexed == IndexedIds \cap ids
        n == Min(k, Cardinality(indexed))
    IN {s \in [1..n -> indexed] :
           /\ IsInjective(s)
           /\ \A i \in 1..n : \A j \in 1..n :
                 i < j => ScoreOf(q, s[i]) >= ScoreOf(q, s[j])
           /\ \A id \in indexed :
                 (\A i \in 1..n : s[i] # id) =>
                     \A i \in 1..n : ScoreOf(q, s[i]) >= ScoreOf(q, id)}

\* mutant: the exclusion filter is never added
BuildFilters_NoExclude(exclude_book_id, genre_filter) ==
    IF Truthy(genre_filter)
    THEN <<[field |-> "genre", ne |-> 0, eq |-> genre_filter]>>
    ELSE <<>>

\* filters, as find_similar_books builds them
BuildFilters(exclude_book_id, genre_filter) ==
    (IF exclude_book_id # NoId /\ exclude_book_id # EmptyId
        /\ ObjectIdValid(exclude_book_id)
     THEN <<[field |-> "_id", ne |-> ObjectId(exclude_book_id), eq |-> None]>>
     ELSE <<>>)
    \o
    (IF Truthy(genre_filter)
     THEN <<[field |-> "genre", ne |-> 0, eq |-> genre_filter]>>
     ELSE <<>>)

MatchesFilter(id, f) ==
    IF f.field = "_id" THEN id # f.ne ELSE books[id].genre = f.eq

\* mutant: the documents that pass come out last first
MatchStage_Reversed(s, filters) ==
    LET keep(id) == \A i \in 1..Len(filters) : MatchesFilter(id, filters[i])
        kept == SelectSeq(s, keep)
    IN [i \in 1..Len(kept) |-> kept[Len(kept) + 1 - i]]

\* The $match stage, applied to the output of $search
MatchStage(s, filters) ==
    LET keep(id) == \A i \in 1..Len(filters) : MatchesFilter(id, filters[i])
    IN SelectSeq(s, keep)

\* The result list built from the pipeline's output
FormatResults(s, q) ==
    [i \in 1..Len(s) |->
        [book_id |-> StrOfObjectId(s[i]),
         similarity_score |-> ScoreOf(q, s[i]),
         book |-> [title |-> books[s[i]].title,
                   author |-> books[s[i]].author,
                   genre |-> books[s[i]].genre]]]

\* The list find_similar_books returns when the $search stage answers s
PipelineResult(s, q, exclude_book_id, genre_filter) ==
    FormatResults(MatchStage(s, BuildFilters(exclude_book_id, genre_filter)), q)

QueryVectors == {UnitVector(1, 1), UnitVector(2, 1)}
Limits == 1..MaxLimit
ExcludeInputs == IdStrings \cup {NoId}
GenreFilters == Genres \cup {None, ""}

\* The default of the argument l_search
DefaultLSearch == 100
LSearches == {1, DefaultLSearch}

\* What the index answers to the $search stage: the top k, or nothing when
\* it refuses a query vector that is not of its dimensions
SearchAnswers(q, k) == IF validate_embedding(q) THEN SearchStage(q, k) ELSE {<<>>}

\* mutant: the breadth is passed on as given
SearchBreadth_AsGiven(limit, l_search) == l_search

\* "lSearch": max(limit, l_search)
SearchBreadth(limit, l_search) == Max(limit, l_search)

\* The body of find_similar_books; s: the answer of the index.  The
\* outcome holds the k and lSearch of the $search stage it issued.
find_similar_books(q, limit, exclude_book_id, genre_filter, l_search, s) ==
    [k |-> limit, lSearch |-> SearchBreadth(limit, l_search),
     raised |-> IF validate_embedding(q) THEN "none" ELSE "OperationFailure",
     result |-> IF validate_embedding(q)
                THEN PipelineResult(s, q, exclude_book_id, genre_filter)
                ELSE <<>>]

\* SimilarityService.find_similar_books
FindSimilarBooks(q, limit, exclude_book_id, genre_filter, l_search, s) ==
    /\ last = NoCall
    /\ s \in SearchAnswers(q, limit)
    /\ LET out == find_similar_books(q, limit, exclude_book_id, genre_filter,
                                     l_search, s)
       IN last' = [op |-> "find_similar_books", query |-> q, limit |-> limit,
                   exclude |-> exclude_book_id, genre |-> genre_filter,
                   l_search |-> l_search, k |-> out.k, lSearch |-> out.lSearch,
                   raised |-> out.raised, result |-> out.result]
    /\ UNCHANGED <<books, nextId, upd, del, deleted>>
    /\ UNCHANGED pureVars

\* mutant: a book without embedding is taken for one that has it
HasNoEmbedding_Never(book) == FALSE

\* 'embedding' not in book or book['embedding'] is None
HasNoEmbedding(book) == book.embedding.null

\* What the index answers when find_similar_by_book_id searches; it does
\* not search when the reference book is not found or has no embedding
ByIdAnswers(book_id, limit) ==
    IF ~ObjectIdValid(book_id) \/ ObjectId(book_id) \notin DOMAIN books
          \/ HasNoEmbedding(books[ObjectId(book_id)])
    THEN {<<>>}
    ELSE SearchAnswers(books[ObjectId(book_id)].embedding.vec, limit)

\* The body of find_similar_by_book_id; s: the answer of the index;
\* searched: find_similar_books was called
find_similar_by_book_id(book_id, limit, l_search, s) ==
    IF ~ObjectIdValid(book_id) \/ ObjectId(book_id) \notin DOMAIN books
          \/ HasNoEmbedding(books[ObjectId(book_id)])
    THEN [searched |-> FALSE, raised |-> "ValueError", result |-> <<>>]
    ELSE LET query_embedding == books[ObjectId(book_id)].embedding.vec
             out == find_similar_books(query_embedding, limit, book_id,
                                       None, l_search, s)
         IN [searched |-> TRUE, raised |-> out.raised, result |-> out.result]

\* SimilarityService.find_similar_by_book_id
FindSimilarByBookId(book_id, limit, l_search) ==
    /\ last = NoCall
    /\ \E s \in ByIdAnswers(book_id, limit) :
          LET out == find_similar_by_book_id(book_id, limit, l_search, s)
          IN last' = [op |-> "find_similar_by_book_id", book_id |-> book_id,
                      limit |-> limit, searched |-> out.searched,
                      raised |-> out.raised, result |-> out.result]
    /\ UNCHANGED <<books, nextId, upd, del, deleted>>
    /\ UNCHANGED pureVars

----------------------------------------------------------------------------
(* BookService: reads *)

\* BookService.get_book_by_id
GetBookById(book_id) ==
    /\ last = NoCall
    /\ last' = [op |-> "get_book_by_id", book_id |-> book_id,
                found |-> ObjectIdValid(book_id)
                            /\ ObjectId(book_id) \in DOMAIN books,
                result |-> IF ObjectIdValid(book_id)
                              /\ ObjectId(book_id) \in DOMAIN books
                           THEN <<SerializeBook(ObjectId(book_id))>>
                           ELSE <<>>]
    /\ UNCHANGED <<books, nextId, upd, del, deleted>>
    /\ UNCHANGED pureVars

\* {"author": {"$regex": author, "$options": "i"}}: the patterns of the
\* model are plain substrings
AuthorPatterns == {None, "a", "zz"}
RegexMatches(pattern, author) == pattern = "a" /\ author \in Authors

\* mutant: the listing keeps only the books that have an embedding
ListedIds_EmbeddedOnly(genre, author) ==
    {id \in DOMAIN books :
        /\ ~books[id].embedding.null
        /\ Truthy(genre) => books[id].genre = genre
        /\ Truthy(author) => RegexMatches(author, books[id].author)}

\* Book.find() narrowed by genre and author
ListedIds(genre, author) ==
    {id \in DOMAIN books :
        /\ Truthy(genre) => books[id].genre = genre
        /\ Truthy(author) => RegexMatches(author, books[id].author)}

\* sort(-Book.addedAt): newest first (addedAt values are distinct)
RECURSIVE SortNewestFirst(_)
SortNewestFirst(ids) ==
    IF ids = {} THEN <<>>
    ELSE LET newest == CHOOSE id \in ids :
                          \A o \in ids : books[o].addedAt <= books[id].addedAt
         IN <<newest>> \o SortNewestFirst(ids \ {newest})

\* .skip(skip).limit(limit)
SkipLimit(s, skip, limit) ==
    SubSeq(s, skip + 1, Min(Len(s), skip + limit))

ListLimits == {1, 50}
ListSkips == {0, 1}

\* BookService.get_books
GetBooks(genre, author, limit, skip) ==
    /\ last = NoCall
    /\ last' = [op |-> "get_books", genre |-> genre, author |-> author,
                limit |-> limit, skip |-> skip,
                result |-> LET page == SkipLimit(
                                 SortNewestFirst(ListedIds(genre, author)),
                                 skip, limit)
                           IN [i \in 1..Len(page) |-> SerializeBook(page[i])]]
    /\ UNCHANGED <<books, nextId, upd, del, deleted>>
    /\ UNCHANGED pureVars

----------------------------------------------------------------------------
(* The external embedding provider *)

\* The text create_book_embedding sends: f"{title}. {description}"
CombinedText(title, description) == <<title, description>>

\* The embedding of a text, as the provider's model defines it
ProviderEmbedding(text) ==
    UnitVector(IF text[2] = "d1" THEN 1 ELSE 2,
               IF text[1] = "t1" THEN 1 ELSE -1)

\* Vectors a provider can also hand back: too short, or not finite
ShortVector == <<1>>
NonFiniteVector == <<NaN, 0>>

NotCalled == [called |-> FALSE, ok |-> FALSE, vec |-> <<>>]
Failed == [called |-> TRUE, ok |-> FALSE, vec |-> <<>>]
Answered(v) == [called |-> TRUE, ok |-> TRUE, vec |-> v]

\* What client.embeddings.create can do for one text: answer, or raise
ProviderAnswers(text) ==
    {Answered(v) : v \in {ProviderEmbedding(text), ShortVector, NonFiniteVector}}
        \cup {Failed}

\* EmbeddingService.create_embedding: np.array(response.data[0].embedding),
\* handed on as it came
create_embedding(answer) == answer.vec

----------------------------------------------------------------------------
(* BookService: writes *)

BookData(title, author, description, genre) ==
    [title |-> title, author |-> author, description |-> description,
     genre |-> genre]

\* A check that looks only for the key: "if field not in book_data"
FieldMissing_OnlyAbsent(v) == v = Missing

\* "if field not in book_data or not book_data[field]"
FieldMissing(v) == v = Missing \/ v = "" \/ v = None

\* BookService.create_book
CreateBook(book_data, answer) ==
    /\ last = NoCall
    /\ IF \/ FieldMissing(book_data.title)
          \/ FieldMissing(book_data.author)
          \/ FieldMissing(book_data.description)
       THEN /\ answer = NotCalled
            /\ last' = [op |-> "create_book", book_data |-> book_data,
                        raised |-> "ValueError", provider |-> answer, id |-> 0]
            /\ UNCHANGED <<books, nextId>>
       ELSE /\ answer \in ProviderAnswers(
                   CombinedText(book_data.title, book_data.description))
            /\ IF ~answer.ok
               THEN /\ last' = [op |-> "create_book", book_data |-> book_data,
                                raised |-> "ValueError", provider |-> answer,
                                id |-> 0]
                    /\ UNCHANGED <<books, nextId>>
               ELSE /\ nextId \in BookIds
                    /\ books' = books @@
                          (nextId :> Book(book_data.title, book_data.author,
                                          book_data.description,
                                          IF book_data.genre = Missing
                                          THEN None ELSE book_data.genre,
                                          Embedding(create_embedding(answer)),
                                          nextId))
                    /\ nextId' = nextId + 1
                    /\ last' = [op |-> "create_book", book_data |-> book_data,
                                raised |-> "none", provider |-> answer,
                                id |-> nextId]
    /\ UNCHANGED <<upd, del, deleted>>
    /\ UNCHANGED pureVars

UpdateData(title, description, genre) ==
    [title |-> title, description |-> description, genre |-> genre]

\* "if 'title' in update_data or 'description' in update_data"
TouchesText(update_data) ==
    update_data.title # Missing \/ update_data.description # Missing

\* update_data.get('title', book.title) and .get('description', ...)
NewText(doc, update_data) ==
    CombinedText(
        IF update_data.title # Missing THEN update_data.title ELSE doc.title,
        IF update_data.description # Missing
        THEN update_data.description ELSE doc.description)

\* The document update_book saves: every key of update_data is set on the
\* document read; 'embedding' is a key only when the provider answered
UpdatedDoc(doc, update_data, answer) ==
    [doc EXCEPT
        !.title = NewText(doc, update_data)[1],
        !.description = NewText(doc, update_data)[2],
        !.genre = IF update_data.genre # Missing THEN update_data.genre ELSE @,
        !.embedding = IF TouchesText(update_data) /\ answer.ok
                      THEN Embedding(create_embedding(answer)) ELSE @]

\* The provider's part in one update: not called unless the text is touched
UpdateAnswers(doc, update_data) ==
    IF TouchesText(update_data)
    THEN ProviderAnswers(NewText(doc, update_data))
    ELSE {NotCalled}

UpdateReturn(book_id, update_data, answer, returned) ==
    [op |-> "update_book", book_id |-> book_id, update_data |-> update_data,
     provider |-> answer, returned |-> returned]

\* update_book up to the return of "await Book.get(...)"
UpdateBookGet(u, book_id, update_data) ==
    /\ upd[u] = Idle
    /\ IF ObjectIdValid(book_id) /\ ObjectId(book_id) \in DOMAIN books
       THEN /\ upd' = [upd EXCEPT ![u] =
                         [pc |-> "got", book_id |-> book_id,
                          update_data |-> update_data,
                          book |-> books[ObjectId(book_id)]]]
            /\ UNCHANGED last
       ELSE /\ last = NoCall
            /\ last' = UpdateReturn(book_id, update_data, NotCalled, FALSE)
            /\ UNCHANGED upd
    /\ UNCHANGED <<books, nextId, del, deleted>>
    /\ UNCHANGED pureVars

\* A save that sets only the keys of update_data on the stored document
DocumentToSave_Stored(u) == books[ObjectId(upd[u].book_id)]

\* The document object update_book holds between its awaits: the one
\* Book.get returned, on which setattr works and which save() writes
DocumentToSave(u) == upd[u].book

\* update_book from there to its return: the embedding call, setattr, and
\* book.save(), which writes the whole document and inserts it if no
\* document has its id; 'after' is where the request stands afterwards
UpdateBookSaveThen(u, answer, after) ==
    /\ upd[u].pc = "got"
    /\ last = NoCall
    /\ answer \in UpdateAnswers(upd[u].book, upd[u].update_data)
    /\ books' = [id \in DOMAIN books \cup {ObjectId(upd[u].book_id)} |->
                    IF id = ObjectId(upd[u].book_id)
                    THEN UpdatedDoc(DocumentToSave(u), upd[u].update_data,
                                    answer)
                    ELSE books[id]]
    /\ last' = UpdateReturn(upd[u].book_id, upd[u].update_data, answer, TRUE)
    /\ upd' = [upd EXCEPT ![u] = after]
    /\ UNCHANGED <<nextId, del, deleted>>
    /\ UNCHANGED pureVars

UpdateBookSave(u, answer) == UpdateBookSaveThen(u, answer, Idle)

\* update_book with no other request running between its two awaits
UpdateBook(book_id, update_data, answer) ==
    /\ last = NoCall
    /\ IF ObjectIdValid(book_id) /\ ObjectId(book_id) \in DOMAIN books
       THEN /\ answer \in UpdateAnswers(books[ObjectId(book_id)], update_data)
            /\ books' = [books EXCEPT ![ObjectId(book_id)] =
                            UpdatedDoc(@, update_data, answer)]
            /\ last' = UpdateReturn(book_id, update_data, answer, TRUE)
       ELSE /\ answer = NotCalled
            /\ last' = UpdateReturn(book_id, update_data, NotCalled, FALSE)
            /\ UNCHANGED books
    /\ UNCHANGED <<nextId, upd, del, deleted>>
    /\ UNCHANGED pureVars

\* The collection without the document of this id
Without(id) == [i \in DOMAIN books \ {id} |-> books[i]]

DeleteReturn(book_id, result) ==
    [op |-> "delete_book", book_id |-> book_id, result |-> result]

\* delete_book up to the return of "await Book.get(...)"
DeleteBookGet(book_id) ==
    /\ del = Idle
    /\ IF ObjectIdValid(book_id) /\ ObjectId(book_id) \in DOMAIN books
       THEN /\ del' = [pc |-> "got", book_id |-> book_id]
            /\ UNCHANGED last
       ELSE /\ last = NoCall
            /\ last' = DeleteReturn(book_id, FALSE)
            /\ UNCHANGED del
    /\ UNCHANGED <<books, nextId, upd, deleted>>
    /\ UNCHANGED pureVars

\* delete_book from there to its return: book.delete(), return True
DeleteBookDelete ==
    /\ del # Idle
    /\ last = NoCall
    /\ books' = Without(ObjectId(del.book_id))
    /\ deleted' = deleted \cup {ObjectId(del.book_id)}
    /\ last' = DeleteReturn(del.book_id, TRUE)
    /\ del' = Idle
    /\ UNCHANGED <<nextId, upd>>
    /\ UNCHANGED pureVars

\* delete_book with no other request running between its two awaits
DeleteBook(book_id) ==
    /\ last = NoCall
    /\ IF ObjectIdValid(book_id) /\ ObjectId(book_id) \in DOMAIN books
       THEN /\ books' = Without(ObjectId(book_id))
            /\ deleted' = deleted \cup {ObjectId(book_id)}
            /\ last' = DeleteReturn(book_id, TRUE)
       ELSE /\ last' = DeleteReturn(book_id, FALSE)
            /\ UNCHANGED <<books, deleted>>
    /\ UNCHANGED <<nextId, upd, del>>
    /\ UNCHANGED pureVars

----------------------------------------------------------------------------
(* Specification of the read operations over every catalog *)

\* A document the collection can hold when the service starts: one that
\* create_book wrote, or one written with the defaults of the Book model
\* (genre = None, embedding = None)
SearchDocs(id) ==
    {Book("t1", "a1", "d1", g, Embedding(v), id) :
        g \in Genres, v \in QueryVectors}
    \cup {Book("t1", "a1", "d1", None, NoEmbedding, id)}

Catalogs ==
    UNION {
        {c \in [ids -> UNION {SearchDocs(id) : id \in ids}] :
            \A id \in ids : c[id] \in SearchDocs(id)} :
        ids \in SUBSET BookIds}

InitSearch ==
    /\ books \in Catalogs
    /\ nextId = MaxBooks + 1
    /\ last = NoCall
    /\ upd = NoUpdates
    /\ del = Idle
    /\ deleted = {}
    /\ tags = <<>>
    /\ mood_scores = <<>>
    /\ mood = Pending
    /\ features = NoFeatures
    /\ audio = NoAudio
    /\ first = NoFirst

\* The caller takes the response of the call that returned
TakeResponse ==
    /\ last # NoCall
    /\ last' = NoCall
    /\ UNCHANGED <<books, nextId, upd, del, deleted>>
    /\ UNCHANGED pureVars

NextSearch ==
    \/ TakeResponse
    \/ \E q \in QueryVectors, limit \in Limits :
          \E s \in (IF last = NoCall THEN SearchStage(q, limit) ELSE {}) :
             \E x \in ExcludeInputs, g \in GenreFilters :
                FindSimilarBooks(q, limit, x, g, DefaultLSearch, s)
    \/ \E id \in IdStrings, limit \in Limits :
          FindSimilarByBookId(id, limit, DefaultLSearch)
    \/ \E id \in IdStrings : GetBookById(id)
    \/ \E g \in GenreFilters, a \in AuthorPatterns, limit \in ListLimits,
          skip \in ListSkips : GetBooks(g, a, limit, skip)

SpecSearch == InitSearch /\ [][NextSearch]_vars

----------------------------------------------------------------------------
(* The routes POST /books/{book_id}/similar and POST /books/search/text    *)

SimilarRoute == "POST /books/{book_id}/similar"
TextRoute == "POST /books/search/text"

\* "similar = await similarity_service.find_...(...)": both service methods
\* are plain functions, so the call runs to its end first; awaiting the
\* list it returned raises TypeError, and an exception of the call itself
\* comes as it is
AwaitOf(out) == IF out.raised = "none" THEN "TypeError" ELSE out.raised

\* The except clauses of the two routes: /similar answers ValueError with
\* 400 and every other Exception, HTTPException included, with 500;
\* /search/text answers every Exception with 500
RouteStatus(route, raised) ==
    IF raised = "none" THEN 200
    ELSE IF route = SimilarRoute /\ raised = "ValueError" THEN 400
    ELSE 500

\* The route find_similar_books; similar: the list the service call came to
RouteFindSimilarBooks(book_id, limit, genre_filter) ==
    /\ last = NoCall
    /\ IF ~(ObjectIdValid(book_id) /\ ObjectId(book_id) \in DOMAIN books)
       THEN last' = [op |-> SimilarRoute, book_id |-> book_id,
                     limit |-> limit, genre_filter |-> genre_filter,
                     similar |-> <<>>, raised |-> "HTTPException(404)",
                     status |-> RouteStatus(SimilarRoute, "HTTPException(404)")]
       ELSE \E s \in ByIdAnswers(book_id, limit) :
               LET out == find_similar_by_book_id(book_id, limit,
                                                  DefaultLSearch, s)
               IN last' = [op |-> SimilarRoute, book_id |-> book_id,
                           limit |-> limit, genre_filter |-> genre_filter,
                           similar |-> out.result, raised |-> AwaitOf(out),
                           status |-> RouteStatus(SimilarRoute, AwaitOf(out))]
    /\ UNCHANGED <<books, nextId, upd, del, deleted>>
    /\ UNCHANGED pureVars

\* request.query of the text search
QueryTexts == {CombinedText("t1", "d1"), CombinedText("t1", "d2")}

\* The route search_by_text; answer: what the provider does for the query
RouteSearchByText(query, limit, genre_filter, answer) ==
    /\ last = NoCall
    /\ answer \in ProviderAnswers(query)
    /\ IF ~answer.ok
       THEN last' = [op |-> TextRoute, query |-> query, limit |-> limit,
                     genre_filter |-> genre_filter, similar |-> <<>>,
                     raised |-> "Exception",
                     status |-> RouteStatus(TextRoute, "Exception")]
       ELSE \E s \in SearchAnswers(create_embedding(answer), limit) :
               LET out == find_similar_books(create_embedding(answer), limit,
                                             NoId, genre_filter,
                                             DefaultLSearch, s)
               IN last' = [op |-> TextRoute, query |-> query, limit |-> limit,
                           genre_filter |-> genre_filter,
                           similar |-> out.result, raised |-> AwaitOf(out),
                           status |-> RouteStatus(TextRoute, AwaitOf(out))]
    /\ UNCHANGED <<books, nextId, upd, del, deleted>>
    /\ UNCHANGED pureVars

NextRoutes ==
    \/ TakeResponse
    \/ \E id \in IdStrings, limit \in Limits, g \in GenreFilters :
          RouteFindSimilarBooks(id, limit, g)
    \/ \E q \in QueryTexts, limit \in Limits, g \in GenreFilters :
          \E a \in ProviderAnswers(q) : RouteSearchByText(q, limit, g, a)

SpecRoutes == InitSearch /\ [][NextRoutes]_vars

----------------------------------------------------------------------------
(* Specification of the catalog: one request at a time *)

CreateInputs ==
    {BookData(t, "a1", d, "g1") : t \in Titles, d \in Descriptions}
        \cup {BookData("", "a1", "d1", "g1"),
              BookData("t1", Missing, "d1", "g1"),
              BookData("t1", "a1", Missing, Missing)}

UpdateInputs ==
    {UpdateData(t, Missing, Missing) : t \in Titles}
        \cup {UpdateData(Missing, d, Missing) : d \in Descriptions}
        \cup {UpdateData(Missing, Missing, g) : g \in Genres}
        \cup {UpdateData("t2", "d2", Missing)}

AllAnswers ==
    {NotCalled} \cup UNION {ProviderAnswers(CombinedText(t, d)) :
                               t \in Titles, d \in Descriptions}

Init ==
    /\ books = <<>>
    /\ nextId = 1
    /\ last = NoCall
    /\ upd = NoUpdates
    /\ del = Idle
    /\ deleted = {}
    /\ tags = <<>>
    /\ mood_scores = <<>>
    /\ mood = Pending
    /\ features = NoFeatures
    /\ audio = NoAudio
    /\ first = NoFirst

\* Query vectors of the index's dimensions and of another length
SpecQueries == {UnitVector(1, 1), ShortVector}

Next ==
    \/ TakeResponse
    \/ \E d \in CreateInputs, a \in AllAnswers :
          nextId <= MaxCreated /\ CreateBook(d, a)
    \/ \E id \in IdStrings, d \in UpdateInputs, a \in AllAnswers :
          UpdateBook(id, d, a)
    \/ \E id \in IdStrings : DeleteBook(id)
    \/ \E id \in IdStrings : GetBookById(id)
    \/ \E id \in IdStrings, limit \in Limits :
          FindSimilarByBookId(id, limit, DefaultLSearch)
    \/ \E q \in SpecQueries, limit \in Limits, l_search \in LSearches :
          \E s \in (IF last = NoCall THEN SearchAnswers(q, limit) ELSE {}) :
             FindSimilarBooks(q, limit, NoId, None, l_search, s)

Spec == Init /\ [][Next]_vars

----------------------------------------------------------------------------
(* Specification of requests that interleave at their awaits, over a       *)
(* catalog of two books that create_book wrote                             *)

\* The requests that write address book 1 (or no book); book 2 is only read
ConcWriteIds == {IdStr("lower", 1), MalformedId}
ConcReadIds == {IdStr("lower", 1), IdStr("lower", 2)}

ConcUpdateInputs ==
    {UpdateData("t2", Missing, Missing), UpdateData(Missing, "d2", Missing),
     UpdateData(Missing, Missing, "g2")}

InitConc ==
    /\ books = (1 :> Book("t1", "a1", "d1", "g1",
                          Embedding(ProviderEmbedding(CombinedText("t1", "d1"))), 1))
            @@ (2 :> Book("t1", "a1", "d2", "g1",
                          Embedding(ProviderEmbedding(CombinedText("t1", "d2"))), 2))
    /\ nextId = 3
    /\ last = NoCall
    /\ upd = NoUpdates
    /\ del = Idle
    /\ deleted = {}
    /\ tags = <<>>
    /\ mood_scores = <<>>
    /\ mood = Pending
    /\ features = NoFeatures
    /\ audio = NoAudio
    /\ first = NoFirst

NextConc ==
    \/ TakeResponse
    \/ \E id \in ConcWriteIds, d \in ConcUpdateInputs : UpdateBookGet("u1", id, d)
    \/ \E a \in AllAnswers : UpdateBookSave("u1", a)
    \/ \E id \in ConcWriteIds : DeleteBookGet(id)
    \/ DeleteBookDelete
    \/ \E id \in ConcReadIds : GetBookById(id)
    \/ \E id \in ConcReadIds, limit \in Limits :
          FindSimilarByBookId(id, limit, DefaultLSearch)
    \/ \E q \in QueryVectors, limit \in Limits :
          \E s \in (IF last = NoCall THEN SearchStage(q, limit) ELSE {}) :
             FindSimilarBooks(q, limit, NoId, None, DefaultLSearch, s)

SpecConc == InitConc /\ [][NextConc]_vars

----------------------------------------------------------------------------
(* Specification of two update_book requests on one book that interleave   *)
(* at their awaits; each request is made once                              *)

TwoUpdateIds == {IdStr("lower", 1), MalformedId}

TwoUpdateInputs ==
    {UpdateData("t2", Missing, Missing), UpdateData(Missing, "d2", Missing),
     UpdateData(Missing, Missing, "g2"), UpdateData("t2", "d2", Missing)}

\* Where a request stands once update_book has returned the updated book
UpdateReturned(u, answer) ==
    [pc |-> "returned", book_id |-> upd[u].book_id,
     update_data |-> upd[u].update_data, provider |-> answer]

InitTwoUpdates ==
    /\ books = (1 :> Book("t1", "a1", "d1", "g1",
                          Embedding(ProviderEmbedding(CombinedText("t1", "d1"))), 1))
    /\ nextId = 2
    /\ last = NoCall
    /\ upd = NoUpdates
    /\ del = Idle
    /\ deleted = {}
    /\ tags = <<>>
    /\ mood_scores = <<>>
    /\ mood = Pending
    /\ features = NoFeatures
    /\ audio = NoAudio
    /\ first = NoFirst

NextTwoUpdates ==
    \/ TakeResponse
    \/ \E u \in Updaters, id \in TwoUpdateIds, d \in TwoUpdateInputs :
          UpdateBookGet(u, id, d)
    \/ \E u \in Updaters, a \in AllAnswers :
          UpdateBookSaveThen(u, a, UpdateReturned(u, a))

SpecTwoUpdates == InitTwoUpdates /\ [][NextTwoUpdates]_vars

----------------------------------------------------------------------------
(* MoodService.infer_mood *)

\* MOOD_MAPPINGS, in the order of its definition
Moods == <<"focus", "energetic", "chill", "melancholic", "happy">>

Keywords(m) ==
    CASE m = "focus" ->
           <<"ambient", "instrumental", "minimal", "lofi", "concentration",
             "study", "work", "deep", "calm", "meditation", "deepwork",
             "coding", "productivity">>
      [] m = "energetic" ->
           <<"upbeat", "dance", "electronic", "edm", "workout", "party",
             "energetic", "fast", "pump", "high-energy", "rock", "metal",
             "trap", "drum-and-bass", "dnb", "techno", "house">>
      [] m = "chill" ->
           <<"chill", "relaxing", "downtempo", "smooth", "jazz", "acoustic",
             "mellow", "laid-back", "easy", "soft", "lounge", "chillout",
             "lo-fi", "beats">>
      [] m = "melancholic" ->
           <<"sad", "melancholic", "emotional", "dark", "moody",
             "introspective", "somber", "melancholy", "blue", "nostalgic",
             "reflective", "depressing", "gloomy">>
      [] m = "happy" ->
           <<"happy", "uplifting", "cheerful", "positive", "joyful", "bright",
             "feel-good", "sunshine", "optimistic", "fun", "poppy", "pop">>

\* A tag string: its trimmed lower-case text, and how it is written
\* ("plain": as the text, "upper": in upper case, "padded": with blanks
\* around it, "upper_padded": both)
Tag(text, form) == [text |-> text, form |-> form]

\* str.lower()
Lower(t) ==
    Tag(t.text, CASE t.form = "upper" -> "plain"
                  [] t.form = "upper_padded" -> "padded"
                  [] OTHER -> t.form)

\* str.strip()
Strip(t) ==
    Tag(t.text, CASE t.form = "padded" -> "plain"
                  [] t.form = "upper_padded" -> "upper"
                  [] OTHER -> t.form)

\* mutant: the tags are lower-cased but not stripped
Normalize_NoStrip(t) == Lower(t)

\* tag.lower().strip()
Normalize(t) == Strip(Lower(t))

\* mutant: only the first tag is looked at
KeywordIn_FirstOnly(keyword, normalized_tags) ==
    normalized_tags[1] = Tag(keyword, "plain")

\* "keyword in normalized_tags": a keyword is a plain lower-case string
KeywordIn(keyword, normalized_tags) ==
    \E i \in 1..Len(normalized_tags) :
        normalized_tags[i] = Tag(keyword, "plain")

\* mutant: every input tag that is a keyword of the mood counts
KeywordScore_PerTag(m, normalized_tags) ==
    Cardinality({i \in 1..Len(normalized_tags) :
        \E j \in 1..Len(Keywords(m)) :
            normalized_tags[i] = Tag(Keywords(m)[j], "plain")})

\* sum(1 for keyword in keywords if keyword in normalized_tags)
KeywordScore(m, normalized_tags) ==
    Cardinality({j \in 1..Len(Keywords(m)) :
        KeywordIn(Keywords(m)[j], normalized_tags)})

\* The dict mood_scores in insertion order: the moods of score > 0
RECURSIVE MoodScoresFrom(_, _)
MoodScoresFrom(i, normalized_tags) ==
    IF i > Len(Moods) THEN <<>>
    ELSE (IF KeywordScore(Moods[i], normalized_tags) > 0
          THEN <<[mood |-> Moods[i],
                  score |-> KeywordScore(Moods[i], normalized_tags)]>>
          ELSE <<>>)
         \o MoodScoresFrom(i + 1, normalized_tags)

\* mutant: among equal scores the key met last wins
MaxKey_Last(scores) ==
    scores[CHOOSE i \in 1..Len(scores) :
              /\ \A j \in 1..Len(scores) : scores[j].score <= scores[i].score
              /\ \A j \in i + 1..Len(scores) : scores[j].score < scores[i].score].mood

\* max(mood_scores, key=mood_scores.get): the first key of maximal value
MaxKey(scores) ==
    scores[CHOOSE i \in 1..Len(scores) :
              /\ \A j \in 1..Len(scores) : scores[j].score <= scores[i].score
              /\ \A j \in 1..i - 1 : scores[j].score < scores[i].score].mood

InferMood ==
    /\ mood = Pending
    /\ IF tags = <<>>
       THEN /\ mood' = None
            /\ mood_scores' = <<>>
       ELSE LET normalized_tags == [i \in 1..Len(tags) |-> Normalize(tags[i])]
                scores == MoodScoresFrom(1, normalized_tags)
            IN /\ mood_scores' = scores
               /\ mood' = IF scores # <<>> THEN MaxKey(scores) ELSE None
    /\ UNCHANGED tags
    /\ UNCHANGED <<audioVars, first>>
    /\ UNCHANGED catalogVars

TagTexts == {"lofi", "study", "jazz", "dance", "unknown-tag"}
TagForms == {"plain", "upper", "padded"}
TagInputs == {Tag(x, f) : x \in TagTexts, f \in TagForms}

TagLists == UNION {[1..n -> TagInputs] : n \in 0..MaxTags}

InitMood ==
    /\ tags \in TagLists
    /\ mood_scores = <<>>
    /\ mood = Pending
    /\ features = NoFeatures
    /\ audio = NoAudio
    /\ first = NoFirst
    /\ books = <<>>
    /\ nextId = 1
    /\ last = NoCall
    /\ upd = NoUpdates
    /\ del = Idle
    /\ deleted = {}

NextMood == InferMood

SpecMood == InitMood /\ [][NextMood]_vars

(* infer_mood called twice on the same tags, reordered in between *)

\* The caller keeps the first result and passes its list again, in the
\* order p (the same order: the call is repeated)
CallAgain(p) ==
    /\ mood # Pending
    /\ first.output = Pending
    /\ first' = [first EXCEPT !.output = mood]
    /\ tags' = [i \in 1..Len(tags) |-> tags[p[i]]]
    /\ mood' = Pending
    /\ mood_scores' = <<>>
    /\ UNCHANGED audioVars
    /\ UNCHANGED catalogVars

AgainTagTexts == {"lofi", "jazz", "unknown-tag"}
AgainTagForms == {"plain", "upper"}
AgainTagInputs == {Tag(x, f) : x \in AgainTagTexts, f \in AgainTagForms}
AgainTagLists == UNION {[1..n -> AgainTagInputs] : n \in 0..MaxTags}

InitMoodAgain ==
    /\ tags \in AgainTagLists
    /\ mood_scores = <<>>
    /\ mood = Pending
    /\ features = NoFeatures
    /\ audio = NoAudio
    /\ first = [input |-> tags, output |-> Pending]
    /\ books = <<>>
    /\ nextId = 1
    /\ last = NoCall
    /\ upd = NoUpdates
    /\ del = Idle
    /\ deleted = {}

NextMoodAgain ==
    \/ InferMood
    \/ \E p \in Permutations(1..Len(tags)) : CallAgain(p)

SpecMoodAgain == InitMoodAgain /\ [][NextMoodAgain]_vars

----------------------------------------------------------------------------
(* AudioService.create_embedding *)

\* A feature bundle is a dict: a sequence of items in the dict's key order.
\* A number is an integer, NaN or Inf.
Item(key, value) == [key |-> key, value |-> value]

HasKey(d, key) == \E i \in 1..Len(d) : d[i].key = key

\* d[key]
GetItem(d, key) == d[CHOOSE i \in 1..Len(d) : d[i].key = key].value

\* The keys create_embedding reads, in the order it reads them
RequiredKeys ==
    <<"mfccs", "chroma", "spectral_contrast", "spectral_centroid", "zcr", "tempo">>

\* x / d for a float x and a divisor d > 0
FloatDiv(x, d) == IF x \in {NaN, Inf} THEN x ELSE x \div d

\* np.array([spectral_centroid / 5000.0, zcr, tempo / 200.0])
Scalars(d) ==
    <<FloatDiv(GetItem(d, "spectral_centroid"), 5000),
      GetItem(d, "zcr"),
      FloatDiv(GetItem(d, "tempo"), 200)>>

\* mutant: the components are taken in the key order of the bundle
Components_InKeyOrder(d) ==
    [i \in 1..Len(d) |->
        IF d[i].key \in {"mfccs", "chroma", "spectral_contrast"}
        THEN d[i].value
        ELSE IF d[i].key = "spectral_centroid" THEN <<FloatDiv(d[i].value, 5000)>>
        ELSE IF d[i].key = "tempo" THEN <<FloatDiv(d[i].value, 200)>>
        ELSE IF d[i].key = "zcr" THEN <<d[i].value>>
        ELSE <<>>]

\* The list components after the four appends
Components(d) ==
    <<GetItem(d, "mfccs"), GetItem(d, "chroma"),
      GetItem(d, "spectral_contrast"), Scalars(d)>>

RECURSIVE Flatten(_, _)
Flatten(components, i) ==
    IF i > Len(components) THEN <<>>
    ELSE components[i] \o Flatten(components, i + 1)

\* mutant: the arrays of an earlier call stay in the list
Concatenate_Accumulating(components) ==
    IF first.output = NoAudio
    THEN Flatten(components, 1)
    ELSE first.output.concatenated \o Flatten(components, 1)

\* np.concatenate(components)
Concatenate(components) == Flatten(components, 1)

\* mutant: a long vector is not cut
PadOrTruncate_PadOnly(v) ==
    [i \in 1..(IF Len(v) < AudioEmbeddingDim THEN AudioEmbeddingDim ELSE Len(v)) |->
        IF i <= Len(v) THEN v[i] ELSE 0]

\* np.pad(embedding, (0, EMBEDDING_DIM - len)) / embedding[:EMBEDDING_DIM]
PadOrTruncate(v) ==
    IF Len(v) < AudioEmbeddingDim
    THEN [i \in 1..AudioEmbeddingDim |-> IF i <= Len(v) THEN v[i] ELSE 0]
    ELSE IF Len(v) > AudioEmbeddingDim
    THEN SubSeq(v, 1, AudioEmbeddingDim)
    ELSE v

RECURSIVE SumSq(_, _)
SumSq(v, i) == IF i > Len(v) THEN 0 ELSE v[i] * v[i] + SumSq(v, i + 1)

\* np.linalg.norm(embedding), kept as its square
Norm(v) ==
    IF \E i \in 1..Len(v) : v[i] = NaN THEN [kind |-> "nan", sq |-> 0]
    ELSE IF \E i \in 1..Len(v) : v[i] = Inf THEN [kind |-> "inf", sq |-> 0]
    ELSE [kind |-> "finite", sq |-> SumSq(v, 1)]

\* A component of the returned array: num / sqrt(sq), or NaN
FloatNaN == [kind |-> "nan", num |-> 0, sq |-> 1]
FloatZero == [kind |-> "finite", num |-> 0, sq |-> 1]
Quotient(x, sq) ==
    IF x = 0 THEN FloatZero ELSE [kind |-> "finite", num |-> x, sq |-> sq]

\* x / norm for a component x
DivideByNorm(x, norm) ==
    CASE norm.kind = "nan" -> FloatNaN
      [] norm.kind = "inf" -> IF x \in {NaN, Inf} THEN FloatNaN ELSE FloatZero
      [] norm.kind = "finite" /\ norm.sq = 0 -> FloatNaN
      [] OTHER -> Quotient(x, norm.sq)

\* x / (norm + 1e-8) for a component x, taken when "norm > 0" is false:
\* the norm is 0, and then every x is 0, or the norm is NaN
DivideByNormPlusEps(x, norm) ==
    IF norm.kind = "nan" \/ x = NaN THEN FloatNaN ELSE FloatZero

NormPositive(norm) ==
    \/ norm.kind = "inf"
    \/ norm.kind = "finite" /\ norm.sq > 0

\* mutant: the division by the norm is not guarded
L2Normalize_Unguarded(v) ==
    [i \in 1..Len(v) |-> DivideByNorm(v[i], Norm(v))]

\* if norm > 0: embedding / norm, else: embedding / (norm + 1e-8)
L2Normalize(v) ==
    IF NormPositive(Norm(v))
    THEN [i \in 1..Len(v) |-> DivideByNorm(v[i], Norm(v))]
    ELSE [i \in 1..Len(v) |-> DivideByNormPlusEps(v[i], Norm(v))]

Returned(concatenated, padded, embedding) ==
    [raised |-> "none", concatenated |-> concatenated, padded |-> padded,
     embedding |-> embedding]
Raised(error) ==
    [raised |-> error, concatenated |-> <<>>, padded |-> <<>>, embedding |-> <<>>]

CreateEmbedding ==
    /\ audio = NoAudio
    /\ features # NoFeatures
    /\ IF \E k \in 1..Len(RequiredKeys) : ~HasKey(features, RequiredKeys[k])
       THEN audio' = Raised("KeyError")
       ELSE LET concatenated == Concatenate(Components(features))
                padded == PadOrTruncate(concatenated)
            IN audio' = Returned(concatenated, padded, L2Normalize(padded))
    /\ UNCHANGED <<features, first>>
    /\ UNCHANGED moodVars
    /\ UNCHANGED catalogVars

\* The order in which extract_features fills the dict, and another one
KeyOrders ==
    {<<"mfccs", "spectral_centroid", "chroma", "spectral_contrast", "zcr",
       "tempo", "duration">>,
     <<"duration", "tempo", "zcr", "spectral_centroid", "spectral_contrast",
       "chroma", "mfccs">>}

\* The bundle of the values d taken in the key order o, absent keys left out
RECURSIVE InOrder(_, _, _)
InOrder(d, o, i) ==
    IF i > Len(o) THEN <<>>
    ELSE (IF HasKey(d, o[i]) THEN <<Item(o[i], GetItem(d, o[i]))>> ELSE <<>>)
         \o InOrder(d, o, i + 1)

\* The caller keeps the first outcome and passes an equal bundle again
CallAgainAudio(o) ==
    /\ audio # NoAudio
    /\ first.output = NoAudio
    /\ first' = [first EXCEPT !.output = audio]
    /\ features' = InOrder(features, o, 1)
    /\ audio' = NoAudio
    /\ UNCHANGED moodVars
    /\ UNCHANGED catalogVars

Zeros(n) == [i \in 1..n |-> 0]
Ramp(n, base) == [i \in 1..n |-> base + i]
SubVectors(base) ==
    UNION {{Zeros(n), Ramp(n, base)} : n \in 0..MaxSub}

Bundle(mfccs, chroma, spectral_contrast, spectral_centroid, zcr, tempo) ==
    <<Item("mfccs", mfccs), Item("spectral_centroid", spectral_centroid),
      Item("chroma", chroma), Item("spectral_contrast", spectral_contrast),
      Item("zcr", zcr), Item("tempo", tempo), Item("duration", 180)>>

FiniteBundles ==
    {Bundle(m, c, sc, cen, z, t) :
        m \in SubVectors(10), c \in SubVectors(20), sc \in SubVectors(30),
        cen \in {0, 5000}, z \in {0, 1}, t \in {0, 400}}

StandardBundle == Bundle(Ramp(1, 10), Ramp(1, 20), Ramp(1, 30), 5000, 1, 400)

NonFiniteBundles ==
    UNION {{Bundle(<<x>>, <<21>>, <<31>>, 5000, 1, 400),
            Bundle(<<11>>, <<x>>, <<31>>, 5000, 1, 400),
            Bundle(<<11>>, <<21>>, <<x>>, 5000, 1, 400),
            Bundle(<<11>>, <<21>>, <<31>>, x, 1, 400),
            Bundle(<<11>>, <<21>>, <<31>>, 5000, x, 400),
            Bundle(<<11>>, <<21>>, <<31>>, 5000, 1, x)} : x \in {NaN, Inf}}

\* The standard bundle without one of its keys
MissingBundles ==
    {SelectSeq(StandardBundle, LAMBDA it : it.key # RequiredKeys[k]) :
        k \in 1..Len(RequiredKeys)}

InitAudio ==
    /\ \E d \in FiniteBundles \cup NonFiniteBundles \cup MissingBundles :
       \E o \in KeyOrders : features = InOrder(d, o, 1)
    /\ audio = NoAudio
    /\ first = [input |-> features, output |-> NoAudio]
    /\ tags = <<>>
    /\ mood_scores = <<>>
    /\ mood = Pending
    /\ books = <<>>
    /\ nextId = 1
    /\ last = NoCall
    /\ upd = NoUpdates
    /\ del = Idle
    /\ deleted = {}

NextAudio ==
    \/ CreateEmbedding
    \/ \E o \in KeyOrders : CallAgainAudio(o)

SpecAudio == InitAudio /\ [][NextAudio]_vars

----------------------------------------------------------------------------
(* Claims about the similarity search, checked under SpecSearch *)

IsSearch == last.op = "find_similar_books"
IsSearchById == last.op = "find_similar_by_book_id" /\ last.raised = "none"

\* The book an id string denotes, if any
Denotes(s, id) == ObjectIdValid(s) /\ ObjectId(s) = id

\* Eligible books of a find_similar_books call: they have an embedding, are
\* not the excluded book and have the genre of the filter
Eligible(exclude_book_id, genre_filter) ==
    {id \in DOMAIN books :
        /\ ~books[id].embedding.null
        /\ ~Denotes(exclude_book_id, id)
        /\ Truthy(genre_filter) => books[id].genre = genre_filter}

ReturnedIds == {ObjectId(last.result[i].book_id) : i \in 1..Len(last.result)}

\* C1: find_similar_books applies the exclusion and the genre filter before
\* the top-k cut: no eligible book left out of the result scores strictly
\* higher than a returned book, and the result holds k books whenever at
\* least k books are eligible.
C1_FilterBeforeTopK ==
    IsSearch =>
        LET E == Eligible(last.exclude, last.genre) IN
        /\ \A e \in E \ ReturnedIds : \A r \in ReturnedIds :
              ScoreOf(last.query, e) <= ScoreOf(last.query, r)
        /\ Cardinality(E) >= last.limit => Len(last.result) = last.limit

\* C2: find_similar_books never returns more than limit results, and when
\* fewer than limit books are eligible it returns exactly the eligible ones
\* in number.
C2_SizeOfResult ==
    IsSearch =>
        LET E == Eligible(last.exclude, last.genre) IN
        /\ Len(last.result) <= last.limit
        /\ Cardinality(E) < last.limit => Len(last.result) = Cardinality(E)

\* C3: whenever an exclude id is passed to find_similar_books, no returned
\* result has that id as book_id, nor is the book the id denotes returned;
\* find_similar_by_book_id never returns the query book.
C3_ExcludedNeverReturned ==
    /\ (IsSearch /\ last.exclude # NoId) =>
          \A i \in 1..Len(last.result) :
             /\ last.result[i].book_id # last.exclude
             /\ ~Denotes(last.exclude, ObjectId(last.result[i].book_id))
    /\ IsSearchById =>
          \A i \in 1..Len(last.result) :
             /\ last.result[i].book_id # last.book_id
             /\ ~Denotes(last.book_id, ObjectId(last.result[i].book_id))

\* C3 witness: the excluded book is indexed and scores strictly above every
\* other indexed book, and the call still returned a book
C3_Witness ==
    /\ IsSearch
    /\ ObjectIdValid(last.exclude)
    /\ ObjectId(last.exclude) \in IndexedIds
    /\ \A o \in IndexedIds \ {ObjectId(last.exclude)} :
          ScoreOf(last.query, ObjectId(last.exclude)) > ScoreOf(last.query, o)
    /\ Len(last.result) >= 1

\* Books stored without an embedding
Unembedded == {id \in DOMAIN books : books[id].embedding.null}

\* C6: a book whose embedding is absent or null never appears in a
\* similarity result, and is still returned by get_book_by_id and listed
\* by get_books.
C6_UnembeddedSkippedButListed ==
    /\ (IsSearch \/ IsSearchById) => ReturnedIds \cap Unembedded = {}
    /\ (last.op = "get_book_by_id" /\ ObjectIdValid(last.book_id)
        /\ ObjectId(last.book_id) \in Unembedded) =>
          /\ last.found
          /\ last.result = <<SerializeBook(ObjectId(last.book_id))>>
    /\ (last.op = "get_books" /\ last.skip = 0 /\ Len(last.result) < last.limit) =>
          \A id \in Unembedded :
             ((Truthy(last.genre) => books[id].genre = last.genre)
              /\ (Truthy(last.author) => RegexMatches(last.author, books[id].author)))
             => \E i \in 1..Len(last.result) :
                   last.result[i]._id = StrOfObjectId(id)

\* C6 witness: a search that had room left (fewer results than limit, no
\* filter) over a catalog that holds a book without an embedding
C6_Witness ==
    /\ IsSearch
    /\ last.exclude = NoId
    /\ ~Truthy(last.genre)
    /\ Unembedded # {}
    /\ Len(last.result) >= 1
    /\ Len(last.result) < last.limit

----------------------------------------------------------------------------
(* Claims about the catalog's writes *)

IsUpdate == last.op = "update_book" /\ last.returned

\* C4: after an update_book call that returns the updated book and whose
\* update contains title or description, the embedding stored on the book
\* is the one the call computed from the new title and description (also
\* when the embedding provider fails during the update).
C4_EmbeddingFollowsText ==
    (IsUpdate /\ TouchesText(last.update_data)) =>
        /\ last.provider.ok
        /\ books[ObjectId(last.book_id)].embedding = Embedding(last.provider.vec)

\* C5: every embedding stored on a book has exactly EMBEDDING_DIM
\* components, all finite, whatever vector the provider returned.
C5_StoredEmbeddingsValid ==
    \A id \in DOMAIN books :
        ~books[id].embedding.null =>
            /\ Len(books[id].embedding.vec) = EMBEDDING_DIM
            /\ \A i \in 1..Len(books[id].embedding.vec) :
                  IsFinite(books[id].embedding.vec[i])

\* C7: after delete_book returned True for an id, get_book_by_id returns
\* None for it, no later similarity result contains it and
\* find_similar_by_book_id fails for it; a delete_book that returns False
\* changes nothing.
C7_DeletedStaysGone ==
    /\ [](\A id \in deleted :
            /\ (last.op = "get_book_by_id" /\ Denotes(last.book_id, id)) =>
                  ~last.found
            /\ (IsSearch \/ IsSearchById) => id \notin ReturnedIds
            /\ (last.op = "find_similar_by_book_id"
                /\ Denotes(last.book_id, id)) => last.raised = "ValueError")
    /\ [][(last' # last /\ last'.op = "delete_book" /\ ~last'.result) =>
             books' = books]_vars

----------------------------------------------------------------------------
(* Claims about infer_mood, checked under SpecMood *)

Called == mood # Pending

\* The score the call gave a mood (0: the mood is no key of mood_scores)
ScoreGiven(m) ==
    IF \E i \in 1..Len(mood_scores) : mood_scores[i].mood = m
    THEN mood_scores[CHOOSE i \in 1..Len(mood_scores) :
                        mood_scores[i].mood = m].score
    ELSE 0

MoodIndex(m) == CHOOSE i \in 1..Len(Moods) : Moods[i] = m

KeywordSet(m) == {Keywords(m)[j] : j \in 1..Len(Keywords(m))}

\* C8: infer_mood returns the mood with the maximum score, and among
\* several moods of maximum score the one defined first in MOOD_MAPPINGS.
C8_MaxScoreFirstDefined ==
    (Called /\ mood # None) =>
        \A i \in 1..Len(Moods) :
            /\ ScoreGiven(Moods[i]) <= ScoreGiven(mood)
            /\ ScoreGiven(Moods[i]) = ScoreGiven(mood) =>
                  MoodIndex(mood) <= i

\* C8 witness: two moods tie on the maximum score and the first defined
\* one is returned
C8_Witness ==
    /\ Called
    /\ mood = "focus"
    /\ ScoreGiven("focus") = 1
    /\ ScoreGiven("chill") = 1
    /\ tags[1].text = "jazz"

\* C9: the score of a mood is the number of input tags whose trimmed,
\* lower-cased form is one of the mood's keywords, every matching input tag
\* counting once.
C9_ScoreCountsTags ==
    (Called /\ tags # <<>>) =>
        \A i \in 1..Len(Moods) :
            ScoreGiven(Moods[i]) =
                Cardinality({k \in 1..Len(tags) :
                    tags[k].text \in KeywordSet(Moods[i])})

\* C9 as amended: the score of a mood is the number of the mood's keywords
\* that are the trimmed, lower-cased form of at least one input tag; input
\* tags of the same trimmed, lower-cased form count once together.
C9_ScoreCountsKeywords ==
    (Called /\ tags # <<>>) =>
        \A i \in 1..Len(Moods) :
            ScoreGiven(Moods[i]) =
                Cardinality({w \in KeywordSet(Moods[i]) :
                    \E k \in 1..Len(tags) : tags[k].text = w})

\* C9 witness: two input tags that differ only in letter case match a
\* keyword of a mood, and the mood scores 1
C9_Witness ==
    /\ Called
    /\ Len(tags) = 2
    /\ tags[1] = Tag("lofi", "plain")
    /\ tags[2] = Tag("lofi", "upper")
    /\ ScoreGiven("focus") = 1

\* C10: infer_mood returns None exactly when the tag list is empty or no
\* normalized tag is a keyword of any mood, and a mood otherwise;
\* infer_mood(['lofi', 'study']) returns 'focus'.
C10_NoneIffNoMatch ==
    Called =>
        /\ mood = None <=>
              \A k \in 1..Len(tags) : \A i \in 1..Len(Moods) :
                  tags[k].text \notin KeywordSet(Moods[i])
        /\ mood # None => \E i \in 1..Len(Moods) : Moods[i] = mood
        /\ tags = <<Tag("lofi", "plain"), Tag("study", "plain")>> =>
              mood = "focus"

\* C10 witness: infer_mood(['lofi', 'study']) has returned
C10_Witness ==
    /\ Called
    /\ tags = <<Tag("lofi", "plain"), Tag("study", "plain")>>
    /\ mood = "focus"

\* C11: the result of infer_mood is the same for every permutation of the
\* tag list and for every repetition of the call, ties on score included,
\* and a call leaves the input list as it was.
C11_OrderAndRepetition ==
    /\ (mood # Pending /\ first.output = Pending) => tags = first.input
    /\ (mood # Pending /\ first.output # Pending) =>
          /\ mood = first.output
          /\ \E p \in Permutations(1..Len(tags)) :
                tags = [i \in 1..Len(tags) |-> first.input[p[i]]]

\* C11 witness: the second call has returned on a reordered list whose
\* moods tie on score
C11_Witness ==
    /\ mood = "focus"
    /\ first.output = "focus"
    /\ tags # first.input
    /\ tags[1].text = "jazz"
    /\ Len(mood_scores) = 2
    /\ mood_scores[1].score = mood_scores[2].score

----------------------------------------------------------------------------
(* Claims about AudioService.create_embedding, checked under SpecAudio *)

AudioReturned == audio.raised = "none"

AllFinite(v) == \A i \in 1..Len(v) : v[i] \notin {NaN, Inf}

ItemsOf(d) == {d[i] : i \in 1..Len(d)}

\* C12: the vector before normalization has exactly EMBEDDING_DIM
\* components: a shorter concatenation is followed by zeros, a longer one is
\* cut to its first EMBEDDING_DIM components.
C12_PaddedOrTruncated ==
    AudioReturned =>
        LET c == audio.concatenated
            n == Len(audio.concatenated)
        IN /\ Len(audio.padded) = AudioEmbeddingDim
           /\ \A i \in 1..AudioEmbeddingDim :
                 audio.padded[i] = IF i <= n THEN c[i] ELSE 0

\* C12 witness: a concatenation longer than EMBEDDING_DIM has been cut
C12_Witness ==
    /\ AudioReturned
    /\ Len(audio.concatenated) > AudioEmbeddingDim
    /\ Len(audio.padded) = AudioEmbeddingDim
    /\ audio.padded[AudioEmbeddingDim] > 0

\* C13: an all-zero padded vector is returned as the all-zero vector of
\* length EMBEDDING_DIM, without NaN or infinite component; when the norm is
\* greater than 0 every component is divided by the norm.
C13_ZeroNormStaysZero ==
    AudioReturned =>
        /\ (\A i \in 1..Len(audio.padded) : audio.padded[i] = 0) =>
              audio.embedding = [i \in 1..AudioEmbeddingDim |-> FloatZero]
        /\ (AllFinite(audio.padded) /\ SumSq(audio.padded, 1) > 0) =>
              \A i \in 1..AudioEmbeddingDim :
                 audio.embedding[i] =
                    IF audio.padded[i] = 0 THEN FloatZero
                    ELSE [kind |-> "finite", num |-> audio.padded[i],
                          sq |-> SumSq(audio.padded, 1)]

\* C13 witness: a bundle of zeros has been turned into the zero vector
C13_Witness ==
    /\ AudioReturned
    /\ Len(audio.concatenated) > 3
    /\ \A i \in 1..Len(audio.padded) : audio.padded[i] = 0
    /\ audio.embedding = [i \in 1..AudioEmbeddingDim |-> FloatZero]

VectorKeys == {"mfccs", "chroma", "spectral_contrast"}

NonFiniteFeature(d) ==
    \E i \in 1..Len(d) :
        IF d[i].key \in VectorKeys
        THEN ~AllFinite(d[i].value)
        ELSE d[i].value \in {NaN, Inf}

MissingFeature(d) == \E k \in 1..Len(RequiredKeys) : ~HasKey(d, RequiredKeys[k])

\* C14: create_embedding fails with InvalidFeatureError, and returns no
\* embedding, when a required feature is missing from the bundle or holds a
\* non-finite value.
C14_InvalidFeatureRejected ==
    (audio # NoAudio /\ (MissingFeature(features) \/ NonFiniteFeature(features))) =>
        /\ audio.raised = "InvalidFeatureError"
        /\ audio.embedding = <<>>

\* C15: the features are concatenated in one fixed order whatever the key
\* order of the bundle: mfccs, chroma, spectral_contrast, then
\* spectral_centroid / 5000, zcr, tempo / 200.
C15_FixedOrder ==
    (AudioReturned /\ ~NonFiniteFeature(features)) =>
        audio.concatenated =
            GetItem(features, "mfccs") \o GetItem(features, "chroma")
            \o GetItem(features, "spectral_contrast")
            \o <<GetItem(features, "spectral_centroid") \div 5000,
                 GetItem(features, "zcr"),
                 GetItem(features, "tempo") \div 200>>

\* C15 witness: a bundle whose keys come in another order than the one of
\* the concatenation, every feature being non-zero
C15_Witness ==
    /\ AudioReturned
    /\ features[1].key = "duration"
    /\ audio.concatenated = <<11, 21, 31, 1, 1, 2>>

\* C16: two calls of create_embedding with equal bundles return equal
\* vectors, and a call leaves its bundle as it was.
C16_Deterministic ==
    /\ (audio # NoAudio /\ first.output = NoAudio) => features = first.input
    /\ (audio # NoAudio /\ first.output # NoAudio) =>
          /\ ItemsOf(features) = ItemsOf(first.input)
          /\ audio.raised = first.output.raised
          /\ audio.embedding = first.output.embedding

\* C16 witness: the second call, on the same bundle in another key order,
\* has returned a vector
C16_Witness ==
    /\ audio # NoAudio
    /\ first.output # NoAudio
    /\ features # first.input
    /\ AudioReturned
    /\ Len(audio.concatenated) < AudioEmbeddingDim
    /\ audio.embedding = first.output.embedding

----------------------------------------------------------------------------
(* Claims about the vectors handed to the store and to the index *)

\* C17: a provider vector whose length differs from EMBEDDING_DIM is
\* rejected before it is accepted, so create_book fails and stores nothing;
\* an accepted vector is handed on with its components unchanged.
C17_WrongLengthRejected ==
    (last.op = "create_book" /\ last.provider.ok) =>
        /\ Len(last.provider.vec) # EMBEDDING_DIM =>
              /\ last.raised # "none"
              /\ last.id = 0
        /\ last.raised = "none" =>
              books[last.id].embedding = Embedding(last.provider.vec)

\* C18: find_similar_books fails with EmptyQueryError, and returns no
\* result list, when the query vector's length differs from EMBEDDING_DIM.
C18_WrongDimensionQueryRejected ==
    (IsSearch /\ Len(last.query) # EMBEDDING_DIM) =>
        /\ last.raised = "EmptyQueryError"
        /\ last.result = <<>>

\* C19: find_similar_by_book_id fails with a not-found error (ValueError)
\* and issues no vector search when the id is malformed, when no book has
\* the id, or when the book's embedding is missing or null; it returns a
\* result list only for an existing book that has an embedding.
C19_NoQueryVectorNoSearch ==
    last.op = "find_similar_by_book_id" =>
        LET unavailable ==
                \/ ~ObjectIdValid(last.book_id)
                \/ ObjectId(last.book_id) \notin DOMAIN books
                \/ books[ObjectId(last.book_id)].embedding.null
        IN /\ unavailable =>
                 /\ last.raised = "ValueError"
                 /\ ~last.searched
                 /\ last.result = <<>>
           /\ ~unavailable => last.searched
           /\ last.raised = "none" => ~unavailable

\* C19 witness: the call has failed for a stored book without embedding
C19_Witness ==
    /\ last.op = "find_similar_by_book_id"
    /\ ObjectIdValid(last.book_id)
    /\ ObjectId(last.book_id) \in DOMAIN books
    /\ books[ObjectId(last.book_id)].embedding.null
    /\ last.raised = "ValueError"
    /\ ~last.searched

\* C20: in every index query find_similar_books issues, lSearch >= k, for
\* every pair of limit and l_search, l_search < limit included.
C20_BreadthAtLeastK ==
    IsSearch =>
        /\ last.k = last.limit
        /\ last.lSearch >= last.k
        /\ last.lSearch >= last.l_search

\* C20 witness: a query has been issued for an l_search below the limit
C20_Witness ==
    /\ IsSearch
    /\ last.raised = "none"
    /\ last.l_search < last.limit
    /\ last.lSearch = last.limit

----------------------------------------------------------------------------
(* Claims about the order of the results, checked under SpecSearch *)

SearchReturned == IsSearch /\ last.raised = "none"

ResultIds == [i \in 1..Len(last.result) |-> ObjectId(last.result[i].book_id)]

\* C21: results of equal similarity score are ordered by ascending book
\* id, whatever the order in which the store enumerates the candidates.
C21_TiesByAscendingId ==
    SearchReturned =>
        \A i \in 1..Len(last.result) : \A j \in 1..Len(last.result) :
            (i < j /\ last.result[i].similarity_score
                         = last.result[j].similarity_score)
                => ResultIds[i] < ResultIds[j]

\* The ids S ordered by (score descending, id ascending)
ByScoreThenId(S, q) ==
    CHOOSE s \in [1..Cardinality(S) -> S] :
        /\ IsInjective(s)
        /\ \A i \in 1..Cardinality(S) : \A j \in 1..Cardinality(S) :
              i < j =>
                 \/ ScoreOf(q, s[i]) > ScoreOf(q, s[j])
                 \/ ScoreOf(q, s[i]) = ScoreOf(q, s[j]) /\ s[i] < s[j]

RangeOf(s) == {s[i] : i \in 1..Len(s)}

\* What find_similar_books can return over the documents ids alone
RankOver(ids, q, k, exclude_book_id, genre_filter) ==
    {MatchStage(s, BuildFilters(exclude_book_id, genre_filter)) :
        s \in SearchStageOver(ids, q, k)}

\* C22: ranking the candidates in one call yields the same ordered top-k
\* as splitting them into partitions, ranking each with the same query, k,
\* exclude id and genre filter, merging by (score descending, id ascending)
\* and truncating to k.
C22_PartitionMerge ==
    SearchReturned =>
        \A part \in SUBSET (DOMAIN books) :
            \A ra \in RankOver(part, last.query, last.limit,
                               last.exclude, last.genre) :
            \A rb \in RankOver((DOMAIN books) \ part, last.query, last.limit,
                               last.exclude, last.genre) :
                LET merged == ByScoreThenId(RangeOf(ra) \cup RangeOf(rb),
                                            last.query)
                IN SubSeq(merged, 1, Min(last.limit, Len(merged))) = ResultIds

\* C24: the similarity_score values of the returned list are non-increasing
\* from the first result to the last, with or without an exclude id or a
\* genre filter.
C24_ScoresNonIncreasing ==
    SearchReturned =>
        \A i \in 1..Len(last.result) : \A j \in 1..Len(last.result) :
            i < j => last.result[i].similarity_score
                        >= last.result[j].similarity_score

\* C24 witness: two results of different scores have passed a genre filter
C24_Witness ==
    /\ SearchReturned
    /\ Truthy(last.genre)
    /\ Len(last.result) = 2
    /\ last.result[1].similarity_score > last.result[2].similarity_score

----------------------------------------------------------------------------
(* Claims about create_book and update_book, checked under Spec *)

IsCreate == last.op = "create_book"

\* A required field that is absent or empty
AbsentOrEmpty(v) == v = Missing \/ v = ""

\* C27: create_book is all-or-nothing: when title, author or description is
\* missing or empty, or when the embedding cannot be created, it raises
\* ValueError and inserts no book; every book it inserts carries a non-null
\* embedding computed from that book's title and description.
C27_CreateAllOrNothing ==
    [][(last = NoCall /\ last'.op = "create_book") =>
          LET d == last'.book_data
              refused == \/ AbsentOrEmpty(d.title)
                         \/ AbsentOrEmpty(d.author)
                         \/ AbsentOrEmpty(d.description)
                         \/ ~last'.provider.ok
          IN  IF last'.raised = "ValueError"
              THEN books' = books
              ELSE /\ ~refused
                   /\ DOMAIN books' = DOMAIN books \cup {last'.id}
                   /\ last'.id \notin DOMAIN books
                   /\ \A id \in DOMAIN books : books'[id] = books[id]
                   /\ books'[last'.id].title = d.title
                   /\ books'[last'.id].description = d.description
                   /\ ~books'[last'.id].embedding.null
                   /\ last'.provider \in ProviderAnswers(
                          CombinedText(books'[last'.id].title,
                                       books'[last'.id].description))
                   /\ books'[last'.id].embedding =
                          Embedding(create_embedding(last'.provider))]_vars

C27_Witness ==
    /\ IsCreate
    /\ last.raised = "none"
    /\ last.id \in DOMAIN books
    /\ books[last.id].embedding =
          Embedding(ProviderEmbedding(CombinedText(last.book_data.title,
                                                   last.book_data.description)))

\* An update with neither title nor description among its keys
NoTextKeys(update_data) ==
    update_data.title = Missing /\ update_data.description = Missing

\* C28: an update_book call whose update contains neither title nor
\* description leaves the book's stored embedding unchanged and makes no
\* call to the embedding provider.
C28_MetadataUpdateKeepsEmbedding ==
    [][(/\ last = NoCall
        /\ last'.op = "update_book"
        /\ last'.returned
        /\ NoTextKeys(last'.update_data)) =>
          /\ ~last'.provider.called
          /\ ObjectId(last'.book_id) \in DOMAIN books
          /\ books'[ObjectId(last'.book_id)].embedding =
                books[ObjectId(last'.book_id)].embedding]_vars

\* The half of C28 about the provider: such a call never calls it
C28_NoProviderCall ==
    (last.op = "update_book" /\ NoTextKeys(last.update_data)) =>
        ~last.provider.called

----------------------------------------------------------------------------
(* Claims about interleaved requests *)

BothSaved == \A u \in Updaters : upd[u].pc = "returned"

BothComputed == \A u \in Updaters : upd[u].provider.ok

\* C29: when two update_book calls on the same book interleave, each
\* reading the book, computing an embedding and saving the whole document,
\* then in every state after both have saved the stored embedding is the
\* embedding of the stored title and stored description.
C29_EmbeddingMatchesStoredText ==
    (BothSaved /\ BothComputed) =>
        \E u \in Updaters :
            /\ books[1].embedding = Embedding(upd[u].provider.vec)
            /\ upd[u].provider \in
                  ProviderAnswers(CombinedText(books[1].title,
                                               books[1].description))

C29_Witness ==
    /\ BothSaved
    /\ BothComputed
    /\ upd["u1"].update_data = UpdateData("t2", Missing, Missing)
    /\ upd["u2"].update_data = UpdateData(Missing, "d2", Missing)
    /\ books[1].description = "d2"
    /\ books[1].embedding =
          Embedding(ProviderEmbedding(CombinedText(books[1].title,
                                                   books[1].description)))

\* C30: a book deleted by delete_book is not brought back by an update_book
\* call that read it before the deletion and saves after it: once
\* delete_book has returned True the id stays absent from the catalog.
C30_DeletedNotRestored == \A id \in deleted : id \notin DOMAIN books

----------------------------------------------------------------------------
(* Claims about the routes, checked under SpecRoutes *)

IsRoute == last.op \in {SimilarRoute, TextRoute}

\* Neither route ever comes to its return statement
NoRouteReturnsList == IsRoute => last.status # 200

C26_UnknownBookIs404 ==
    (/\ last.op = SimilarRoute
     /\ ~(ObjectIdValid(last.book_id)
          /\ ObjectId(last.book_id) \in DOMAIN books)) =>
        last.status = 404

====
